---------------------------- MODULE Spec2Model ----------------------------
(***************************************************************************)
(* DistanceEvaluator (multibody/kinematic/distance_evaluator.cc): the      *)
(* point-to-point distance constraint, its Jacobian and its bias term      *)
(* Jdot*v, evaluated against a MultibodyPlant and a Context.                *)
(*                                                                         *)
(* The scalar type T is modelled exactly.  Every kinematic quantity of the *)
(* plant below is an integer (frames turn by quarter turns), and the only  *)
(* irrational the evaluator produces is phi = rel_pos.norm(), the square   *)
(* root of an integer.  A scalar is a record                               *)
(*     [k, a, b, d, r]   standing for   (a + b*sqrt(r)) / d                *)
(* with k = "fin", or one of the IEEE-754 specials k = "nan", "pinf",      *)
(* "ninf" that a division by a vanishing norm produces.                    *)
(***************************************************************************)
EXTENDS Integers, Sequences, FiniteSets, TLC

\* ------------------------------------------------------------------ bounds
\* Every generalized velocity ranges over -1..MaxVel.
MaxVel == 1
\* The target distance ranges over 1..MaxDist.
MaxDist == 1
\* An evaluator set holds at most MaxSet members, each of at most MaxLen rows.
MaxSet == 4
MaxLen == 2

\* ------------------------------------------------------- scalar arithmetic
Abs(i) == IF i < 0 THEN -i ELSE i

RECURSIVE GCD(_, _)
GCD(m, n) == IF n = 0 THEN m ELSE GCD(n, m % n)

RECURSIVE SqFactorFrom(_, _, _)
\* Largest g >= f with g*g dividing n, or best when there is none.
SqFactorFrom(n, f, best) ==
  IF f * f > n THEN best
  ELSE SqFactorFrom(n, f + 1, IF n % (f * f) = 0 THEN f ELSE best)
\* Largest f with f*f dividing n (n >= 1).
SqFactor(n) == SqFactorFrom(n, 2, 1)

NaN  == [k |-> "nan",  a |-> 0, b |-> 0, d |-> 1, r |-> 1]
PInf == [k |-> "pinf", a |-> 0, b |-> 0, d |-> 1, r |-> 1]
NInf == [k |-> "ninf", a |-> 0, b |-> 0, d |-> 1, r |-> 1]
\* Two different irrational radicands in one expression: never produced by
\* the evaluator (one norm per call); kept apart from every real value.
Mixed == [k |-> "mixed", a |-> 0, b |-> 0, d |-> 1, r |-> 1]

\* Canonical form of (a + b*sqrt(r)) / d, d # 0, r >= 0.
Mk(a, b, d, r) ==
  LET f  == IF r = 0 \/ b = 0 THEN 1 ELSE SqFactor(r)
      r1 == IF r = 0 \/ b = 0 THEN 1 ELSE r \div (f * f)
      b1 == IF r = 0 THEN 0 ELSE b * f
      a2 == IF r1 = 1 THEN a + b1 ELSE a
      b2 == IF r1 = 1 THEN 0 ELSE b1
      s  == IF d < 0 THEN -1 ELSE 1
      g  == GCD(GCD(Abs(a2), Abs(b2)), Abs(d))
  IN  [k |-> "fin", a |-> (s * a2) \div g, b |-> (s * b2) \div g,
       d |-> (s * d) \div g, r |-> IF b2 = 0 THEN 1 ELSE r1]

\* An integer as a scalar of type T.
R(i) == Mk(i, 0, 1, 1)

\* -1, 0, 1: the sign of a finite scalar.
Sign(x) ==
  LET pa == x.a * x.a
      pb == x.b * x.b * x.r
  IN  IF x.b = 0 THEN (IF x.a > 0 THEN 1 ELSE IF x.a < 0 THEN -1 ELSE 0)
      ELSE IF x.a >= 0 /\ x.b > 0 THEN 1
      ELSE IF x.a <= 0 /\ x.b < 0 THEN -1
      ELSE IF x.a > 0 THEN (IF pa > pb THEN 1 ELSE -1)
      ELSE (IF pb > pa THEN 1 ELSE -1)

IsZero(x) == x.k = "fin" /\ x.a = 0 /\ x.b = 0
IsInf(x) == x.k \in {"pinf", "ninf"}
IsInvalid(x) == x.k \in {"nan", "pinf", "ninf"}
\* Sign of a finite or infinite scalar.
SignOf(x) == IF x.k = "pinf" THEN 1 ELSE IF x.k = "ninf" THEN -1 ELSE Sign(x)
Rad(x, y) == IF x.b # 0 THEN x.r ELSE y.r
Clash(x, y) == x.b # 0 /\ y.b # 0 /\ x.r # y.r

RNeg(x) ==
  IF x.k = "fin" THEN Mk(-x.a, -x.b, x.d, x.r)
  ELSE IF x.k = "pinf" THEN NInf
  ELSE IF x.k = "ninf" THEN PInf
  ELSE x

RAdd(x, y) ==
  IF x.k = "mixed" \/ y.k = "mixed" THEN Mixed
  ELSE IF x.k = "nan" \/ y.k = "nan" THEN NaN
  ELSE IF IsInf(x) /\ IsInf(y) THEN (IF x.k = y.k THEN x ELSE NaN)
  ELSE IF IsInf(x) THEN x
  ELSE IF IsInf(y) THEN y
  ELSE IF Clash(x, y) THEN Mixed
  ELSE Mk(x.a * y.d + y.a * x.d, x.b * y.d + y.b * x.d, x.d * y.d, Rad(x, y))


RSub(x, y) == RAdd(x, RNeg(y))

RMul(x, y) ==
  IF x.k = "mixed" \/ y.k = "mixed" THEN Mixed
  ELSE IF x.k = "nan" \/ y.k = "nan" THEN NaN
  ELSE IF IsInf(x) \/ IsInf(y)
       THEN (IF IsZero(x) \/ IsZero(y) THEN NaN
             ELSE IF SignOf(x) * SignOf(y) > 0 THEN PInf ELSE NInf)
  ELSE IF Clash(x, y) THEN Mixed
  ELSE Mk(x.a * y.a + x.b * y.b * Rad(x, y), x.a * y.b + y.a * x.b,
          x.d * y.d, Rad(x, y))


\* IEEE-754 division: x/0 is NaN for x = 0 and a signed infinity otherwise.
RDiv(x, y) ==
  IF x.k = "mixed" \/ y.k = "mixed" THEN Mixed
  ELSE IF x.k = "nan" \/ y.k = "nan" THEN NaN
  ELSE IF IsInf(y) THEN (IF IsInf(x) THEN NaN ELSE R(0))
  ELSE IF IsZero(y) THEN (IF IsZero(x) THEN NaN
                          ELSE IF SignOf(x) > 0 THEN PInf ELSE NInf)
  ELSE IF IsInf(x) THEN (IF SignOf(x) * Sign(y) > 0 THEN PInf ELSE NInf)
  ELSE IF Clash(x, y) THEN Mixed
  ELSE LET rr == Rad(x, y)
           \* 1/y = y.d * (y.a - y.b*sqrt(rr)) / (y.a^2 - y.b^2 * rr)
           n  == y.a * y.a - y.b * y.b * rr
       IN  Mk((x.a * y.a - x.b * y.b * rr) * y.d,
              (x.b * y.a - x.a * y.b) * y.d, x.d * n, rr)


\* sqrt of a nonnegative integer.
RSqrt(n) == Mk(0, 1, 1, n)


\* ------------------------------------------------------- vectors, matrices
Add3(u, w) == <<u[1] + w[1], u[2] + w[2], u[3] + w[3]>>
Sub3(u, w) == <<u[1] - w[1], u[2] - w[2], u[3] - w[3]>>
Dot3(u, w) == u[1] * w[1] + u[2] * w[2] + u[3] * w[3]
SquaredNorm(u) == Dot3(u, u)
\* Eigen norm(): the square root of the squared norm.
Norm(u) == RSqrt(SquaredNorm(u))

RECURSIVE SumTo(_, _)
\* f[1] + ... + f[n]
SumTo(f, n) == IF n = 0 THEN 0 ELSE f[n] + SumTo(f, n - 1)

RECURSIVE RSumTo(_, _)
\* f[1] + ... + f[n] over scalars of type T.
RSumTo(f, n) == IF n = 0 THEN R(0) ELSE RAdd(RSumTo(f, n - 1), f[n])

Rows(M) == Len(M)
Cols(M) == Len(M[1])
\* A column vector as the 1 x n matrix Eigen's transpose() gives.
Transpose(u) == <<u>>
\* A matrix or vector expression evaluated into a concrete object (Eigen
\* assigns every product, difference and quotient to a MatrixX / VectorX).
Evaluated(M) == CHOOSE z \in {M} : z = z
MatSub(A, B) ==
  Evaluated([i \in 1..Rows(A) |-> [j \in 1..Cols(A) |-> A[i][j] - B[i][j]]])
MatMul(A, B) ==
  Evaluated([i \in 1..Rows(A) |->
     [j \in 1..Cols(B) |-> SumTo([k \in 1..Rows(B) |-> A[i][k] * B[k][j]], Rows(B))]])
\* Matrix times column vector.
MatVec(A, u) ==
  Evaluated([i \in 1..Rows(A) |-> SumTo([k \in 1..Len(u) |-> A[i][k] * u[k]], Len(u))])
\* Every entry of an integer matrix divided by the scalar s.
MatDiv(A, s) ==
  Evaluated([i \in 1..Rows(A) |-> [j \in 1..Cols(A) |-> RDiv(R(A[i][j]), s)]])
\* Eigen dot() of a 1 x n row of scalars with an integer vector.
RowDot(J, u) == RSumTo([k \in 1..Len(u) |-> RMul(J[1][k], R(u[k]))], Len(u))

\* ---------------------------------------------------------------- the plant
\* The MultibodyPlant the evaluator borrows: a planar double pendulum.
\*   F1 turns about the world z axis at the world origin (q[1]);
\*   F2 is carried by F1 and turns about z (q[2]) at the point link of F1.
\* Turns are counted in quarter turns, so every rotation matrix is integral.
\* Generalized velocity: v[1], v[2] are the turn rates of the two joints.
Frames == {"world", "F1", "F2"}
Plant == [num_velocities |-> 2, link |-> <<1, 0, 0>>]

\* Rotation about z by k quarter turns, and its transpose.
Rz(k, p) ==
  IF k = 0 THEN p
  ELSE IF k = 1 THEN <<-p[2], p[1], p[3]>>
  ELSE IF k = 2 THEN <<-p[1], -p[2], p[3]>>
  ELSE <<p[2], -p[1], p[3]>>
RzT(k, p) == Rz((4 - k) % 4, p)
\* z axis cross p.
ZCross(p) == <<-p[2], p[1], 0>>

\* Turn of frame f relative to the world, in quarter turns.
FrameTurn(context, f) ==
  IF f = "F1" THEN context.q[1]
  ELSE IF f = "F2" THEN (context.q[1] + context.q[2]) % 4
  ELSE 0
\* World position of the origin of frame f.
FrameOrigin(plant, context, f) ==
  IF f = "F2" THEN Rz(context.q[1], plant.link) ELSE <<0, 0, 0>>
\* The joints between the world and frame f, and where each joint's axis is.
JointsTo(f) == IF f = "F1" THEN {1} ELSE IF f = "F2" THEN {1, 2} ELSE {}
JointOrigin(plant, context, j) ==
  IF j = 2 THEN FrameOrigin(plant, context, "F2") ELSE <<0, 0, 0>>
\* Angular rate of frame f in the world.
TurnRate(context, f) ==
  IF f = "F1" THEN context.v[1]
  ELSE IF f = "F2" THEN context.v[1] + context.v[2]
  ELSE 0

\* World position of the point p fixed in frame f.
PointInWorld(plant, context, f, p) ==
  Add3(FrameOrigin(plant, context, f), Rz(FrameTurn(context, f), p))

\* plant.CalcPointsPositions(context, frame_B, p_BQi, frame_A, &p_AQi):
\* the point fixed in frame_B at p_BQi, in the coordinates of frame_A.
CalcPointsPositions(plant, context, frame_B, p_BQi, frame_A) ==
  RzT(FrameTurn(context, frame_A),
      Sub3(PointInWorld(plant, context, frame_B, p_BQi),
           FrameOrigin(plant, context, frame_A)))

\* 3 x nv Jacobian, measured and expressed in the world, of the velocity of
\* the point fixed in frame f that is at the world position p_W: joint j
\* moves it by z cross (p_W - joint origin) when j carries f.
PointJacobianInWorld(plant, context, f, p_W) ==
  LET col(j) == IF j \in JointsTo(f)
                THEN ZCross(Sub3(p_W, JointOrigin(plant, context, j)))
                ELSE <<0, 0, 0>>
  IN  Evaluated([i \in 1..3 |-> [j \in 1..plant.num_velocities |-> col(j)[i]]])

\* Every column of a 3 x n matrix re-expressed in frame_E.
ExpressIn(context, frame_E, M) ==
  Evaluated([i \in 1..3 |->
     [j \in 1..Cols(M) |->
        RzT(FrameTurn(context, frame_E), <<M[1][j], M[2][j], M[3][j]>>)[i]]])

\* plant.CalcJacobianTranslationalVelocity(context, kV, frame_B, p_BoBi_B,
\*                                         frame_A, frame_E, &J):
\* Jacobian of the velocity of the point Bi of frame_B measured in frame_A
\* (the world velocity of Bi minus the world velocity of the point of
\* frame_A coincident with Bi), expressed in frame_E.
CalcJacobianTranslationalVelocity(plant, context, frame_B, p_BoBi_B, frame_A, frame_E) ==
  LET p_W == PointInWorld(plant, context, frame_B, p_BoBi_B)
  IN  ExpressIn(context, frame_E,
                MatSub(PointJacobianInWorld(plant, context, frame_B, p_W),
                       PointJacobianInWorld(plant, context, frame_A, p_W)))

\* plant.CalcBiasSpatialAcceleration(context, kV, frame_B, p_BoBp_B, world,
\*                                   frame_E).translational():
\* the world acceleration of the point at zero generalized acceleration,
\* expressed in frame_E: the centripetal acceleration -w1^2 * o of the
\* frame's origin o plus -w^2 * r of the point's offset r from it, w1 the
\* rate of joint 1 and w the frame's angular rate.
CalcBiasSpatialAcceleration(plant, context, frame_B, p_BoBp_B, frame_E) ==
  LET o  == FrameOrigin(plant, context, frame_B)
      rr == Rz(FrameTurn(context, frame_B), p_BoBp_B)
      w1 == context.v[1]
      w  == TurnRate(context, frame_B)
      a  == <<-(w1 * w1 * o[1]) - (w * w * rr[1]),
              -(w1 * w1 * o[2]) - (w * w * rr[2]), 0>>
  IN  RzT(FrameTurn(context, frame_E), a)

GetVelocities(context) == context.v

\* ------------------------------------------------------- DistanceEvaluator
\* DistanceEvaluator(plant, pt_A, frame_A, pt_B, frame_B, distance):
\* the base KinematicEvaluator is constructed with length 1.
DistanceEvaluator(plant, pt_A, frame_A, pt_B, frame_B, distance) ==
  [plant_ |-> plant, length_ |-> 1,
   pt_A_ |-> pt_A, frame_A_ |-> frame_A,
   pt_B_ |-> pt_B, frame_B_ |-> frame_B, distance_ |-> distance]

\* EvalFull with point A left in frame A's coordinates.
EvalFull_NoTransform(self, context) ==
  LET rel_pos == Sub3(self.pt_A_, self.pt_B_)
  IN  <<RSub(Norm(rel_pos), R(self.distance_))>>

\* VectorX<T> EvalFull(context): a vector of one entry.
EvalFull(self, context) ==
  LET pt_A_B  == CalcPointsPositions(self.plant_, context, self.frame_A_,
                                     self.pt_A_, self.frame_B_)
      rel_pos == Sub3(pt_A_B, self.pt_B_)
  IN  <<RSub(Norm(rel_pos), R(self.distance_))>>

\* EvalFullJacobian with point A's Jacobian measured in the world.
EvalFullJacobian_WorldMeasured(self, context) ==
  LET pt_A_B  == CalcPointsPositions(self.plant_, context, self.frame_A_,
                                     self.pt_A_, self.frame_B_)
      rel_pos == Sub3(pt_A_B, self.pt_B_)
      J_A     == CalcJacobianTranslationalVelocity(
                   self.plant_, context, self.frame_A_, self.pt_A_,
                   "world", self.frame_B_)
  IN  MatDiv(MatMul(Transpose(rel_pos), J_A), Norm(rel_pos))

\* EvalFullJacobian returning a zero row where the norm vanishes.
EvalFullJacobian_Guarded(self, context) ==
  LET pt_A_B  == CalcPointsPositions(self.plant_, context, self.frame_A_,
                                     self.pt_A_, self.frame_B_)
      rel_pos == Sub3(pt_A_B, self.pt_B_)
      J_A     == CalcJacobianTranslationalVelocity(
                   self.plant_, context, self.frame_A_, self.pt_A_,
                   self.frame_B_, self.frame_B_)
  IN  IF SquaredNorm(rel_pos) = 0
      THEN <<[j \in 1..self.plant_.num_velocities |-> R(0)]>>
      ELSE MatDiv(MatMul(Transpose(rel_pos), J_A), Norm(rel_pos))

\* EvalFullJacobian returning J_A / norm, not contracted with rel_pos.
EvalFullJacobian_NoContraction(self, context) ==
  LET pt_A_B  == CalcPointsPositions(self.plant_, context, self.frame_A_,
                                     self.pt_A_, self.frame_B_)
      rel_pos == Sub3(pt_A_B, self.pt_B_)
      J_A     == CalcJacobianTranslationalVelocity(
                   self.plant_, context, self.frame_A_, self.pt_A_,
                   self.frame_B_, self.frame_B_)
  IN  MatDiv(J_A, Norm(rel_pos))

\* MatrixX<T> EvalFullJacobian(context).
EvalFullJacobian(self, context) ==
  LET pt_A_B  == CalcPointsPositions(self.plant_, context, self.frame_A_,
                                     self.pt_A_, self.frame_B_)
      rel_pos == Sub3(pt_A_B, self.pt_B_)
      J_A     == CalcJacobianTranslationalVelocity(
                   self.plant_, context, self.frame_A_, self.pt_A_,
                   self.frame_B_, self.frame_B_)
  IN  MatDiv(MatMul(Transpose(rel_pos), J_A), Norm(rel_pos))

\* The world-frame Jacobian with J_B left out.
WorldFrameJacobian_OnlyA(self, context) ==
  LET pt_A_world == CalcPointsPositions(self.plant_, context, self.frame_A_,
                                        self.pt_A_, "world")
      pt_B_world == CalcPointsPositions(self.plant_, context, self.frame_B_,
                                        self.pt_B_, "world")
      rel_pos    == Sub3(pt_A_world, pt_B_world)
      J_A        == CalcJacobianTranslationalVelocity(
                      self.plant_, context, self.frame_A_, self.pt_A_,
                      "world", "world")
  IN  MatDiv(MatMul(Transpose(rel_pos), J_A), Norm(rel_pos))

\* The constraint Jacobian EvalFullJacobianDotTimesV forms in the world
\* frame: (rel_pos.transpose() * J_rel) / phi.
WorldFrameJacobian(self, context) ==
  LET pt_A_world == CalcPointsPositions(self.plant_, context, self.frame_A_,
                                        self.pt_A_, "world")
      pt_B_world == CalcPointsPositions(self.plant_, context, self.frame_B_,
                                        self.pt_B_, "world")
      rel_pos    == Sub3(pt_A_world, pt_B_world)
      J_A        == CalcJacobianTranslationalVelocity(
                      self.plant_, context, self.frame_A_, self.pt_A_,
                      "world", "world")
      J_B        == CalcJacobianTranslationalVelocity(
                      self.plant_, context, self.frame_B_, self.pt_B_,
                      "world", "world")
      J_rel      == MatSub(J_A, J_B)
      phi        == Norm(rel_pos)
  IN  MatDiv(MatMul(Transpose(rel_pos), J_rel), phi)

\* EvalFullJacobianDotTimesV without the third term.
EvalFullJacobianDotTimesV_NoCurvature(self, context) ==
  LET pt_A_world == CalcPointsPositions(self.plant_, context, self.frame_A_,
                                        self.pt_A_, "world")
      pt_B_world == CalcPointsPositions(self.plant_, context, self.frame_B_,
                                        self.pt_B_, "world")
      rel_pos    == Sub3(pt_A_world, pt_B_world)
      J_A        == CalcJacobianTranslationalVelocity(
                      self.plant_, context, self.frame_A_, self.pt_A_,
                      "world", "world")
      J_B        == CalcJacobianTranslationalVelocity(
                      self.plant_, context, self.frame_B_, self.pt_B_,
                      "world", "world")
      J_rel      == MatSub(J_A, J_B)
      J_A_dot_times_v == CalcBiasSpatialAcceleration(
                           self.plant_, context, self.frame_A_, self.pt_A_, "world")
      J_B_dot_times_v == CalcBiasSpatialAcceleration(
                           self.plant_, context, self.frame_B_, self.pt_B_, "world")
      J_rel_dot_times_v == Sub3(J_A_dot_times_v, J_B_dot_times_v)
      phi        == Norm(rel_pos)
      J          == WorldFrameJacobian(self, context)
      phidot     == RowDot(J, GetVelocities(context))
      J_rel_v    == MatVec(J_rel, GetVelocities(context))
  IN  <<RAdd(RDiv(R(SquaredNorm(J_rel_v)), phi),
             RDiv(R(Dot3(rel_pos, J_rel_dot_times_v)), phi))>>

\* EvalFullJacobianDotTimesV with the squared norm of rel_pos, not of
\* J_rel * v, in the first term.
EvalFullJacobianDotTimesV_PositionNorm(self, context) ==
  LET pt_A_world == CalcPointsPositions(self.plant_, context, self.frame_A_,
                                        self.pt_A_, "world")
      pt_B_world == CalcPointsPositions(self.plant_, context, self.frame_B_,
                                        self.pt_B_, "world")
      rel_pos    == Sub3(pt_A_world, pt_B_world)
      J_A        == CalcJacobianTranslationalVelocity(
                      self.plant_, context, self.frame_A_, self.pt_A_,
                      "world", "world")
      J_B        == CalcJacobianTranslationalVelocity(
                      self.plant_, context, self.frame_B_, self.pt_B_,
                      "world", "world")
      J_rel      == MatSub(J_A, J_B)
      J_A_dot_times_v == CalcBiasSpatialAcceleration(
                           self.plant_, context, self.frame_A_, self.pt_A_, "world")
      J_B_dot_times_v == CalcBiasSpatialAcceleration(
                           self.plant_, context, self.frame_B_, self.pt_B_, "world")
      J_rel_dot_times_v == Sub3(J_A_dot_times_v, J_B_dot_times_v)
      phi        == Norm(rel_pos)
      J          == WorldFrameJacobian(self, context)
      phidot     == RowDot(J, GetVelocities(context))
      J_rel_v    == MatVec(J_rel, GetVelocities(context))
  IN  <<RSub(RAdd(RDiv(R(SquaredNorm(rel_pos)), phi),
                  RDiv(R(Dot3(rel_pos, J_rel_dot_times_v)), phi)),
             RDiv(RMul(phidot, R(Dot3(rel_pos, J_rel_v))), RMul(phi, phi)))>>

\* VectorX<T> EvalFullJacobianDotTimesV(context): a vector of one entry.
EvalFullJacobianDotTimesV(self, context) ==
  LET pt_A_world == CalcPointsPositions(self.plant_, context, self.frame_A_,
                                        self.pt_A_, "world")
      pt_B_world == CalcPointsPositions(self.plant_, context, self.frame_B_,
                                        self.pt_B_, "world")
      rel_pos    == Sub3(pt_A_world, pt_B_world)
      J_A        == CalcJacobianTranslationalVelocity(
                      self.plant_, context, self.frame_A_, self.pt_A_,
                      "world", "world")
      J_B        == CalcJacobianTranslationalVelocity(
                      self.plant_, context, self.frame_B_, self.pt_B_,
                      "world", "world")
      J_rel      == MatSub(J_A, J_B)
      J_A_dot_times_v == CalcBiasSpatialAcceleration(
                           self.plant_, context, self.frame_A_, self.pt_A_, "world")
      J_B_dot_times_v == CalcBiasSpatialAcceleration(
                           self.plant_, context, self.frame_B_, self.pt_B_, "world")
      J_rel_dot_times_v == Sub3(J_A_dot_times_v, J_B_dot_times_v)
      phi        == Norm(rel_pos)
      J          == WorldFrameJacobian(self, context)
      phidot     == RowDot(J, GetVelocities(context))
      J_rel_v    == MatVec(J_rel, GetVelocities(context))
  IN  <<RSub(RAdd(RDiv(R(SquaredNorm(J_rel_v)), phi),
                  RDiv(R(Dot3(rel_pos, J_rel_dot_times_v)), phi)),
             RDiv(RMul(phidot, R(Dot3(rel_pos, J_rel_v))), RMul(phi, phi)))>>


\* ------------------------------------------------------------ state machine
VARIABLES
  evaluator,   \* the DistanceEvaluator object: its fields
  ctor,        \* the arguments its constructor was given
  context,     \* the caller's Context: generalized positions q, velocities v
  op,          \* the evaluation call that returned last ("none": none pending)
  result,      \* what that call returned
  evaluators,  \* the evaluator set: its members in insertion order
  stacked      \* what the last evaluation of the set returned

vars == <<evaluator, ctor, context, op, result, evaluators, stacked>>

\* Points, in their frames' coordinates, the evaluator is constructed with.
\* Lengths are in units of 0.5: pt_B = (1, 0, 0) with target distance 0.5 is
\* <<2, 0, 0>> with distance 1 here.
PointsA == {<<0, 0, 0>>, <<1, 0, 1>>}
PointsB == {<<1, 0, 0>>, <<2, 0, 0>>}
Distances == 1..MaxDist
Turns == 0..3
Rates == -1..MaxVel

CtorArgs ==
  [plant : {Plant}, pt_A : PointsA, frame_A : Frames,
   pt_B : PointsB, frame_B : Frames, distance : Distances]

Construct(args) ==
  DistanceEvaluator(args.plant, args.pt_A, args.frame_A,
                    args.pt_B, args.frame_B, args.distance)

\* plant.CreateDefaultContext(): zero positions and velocities.
DefaultContext == [q |-> <<0, 0>>, v |-> <<0, 0>>]

Init ==
  /\ ctor \in CtorArgs
  /\ evaluator = Construct(ctor)
  /\ context = DefaultContext
  /\ op = "none"
  /\ result = <<>>
  /\ evaluators = <<>>
  /\ stacked = <<>>

\* The caller sets one generalized position of its context.
SetPosition ==
  /\ op = "none"
  /\ \E i \in 1..Plant.num_velocities : \E x \in Turns :
       /\ x # context.q[i]
       /\ context' = [context EXCEPT !.q[i] = x]
  /\ UNCHANGED <<evaluator, ctor, op, result, evaluators, stacked>>

\* The caller sets one generalized velocity of its context.
SetVelocity ==
  /\ op = "none"
  /\ \E i \in 1..Plant.num_velocities : \E x \in Rates :
       /\ x # context.v[i]
       /\ context' = [context EXCEPT !.v[i] = x]
  /\ UNCHANGED <<evaluator, ctor, op, result, evaluators, stacked>>

\* EvalFull keeping the transformed point A in the evaluator.
CallEvalFull_KeepsPose ==
  /\ op = "none"
  /\ op' = "EvalFull"
  /\ result' = EvalFull(evaluator, context)
  /\ evaluator' = [evaluator EXCEPT !.pt_A_ =
                     CalcPointsPositions(evaluator.plant_, context, evaluator.frame_A_,
                                         evaluator.pt_A_, evaluator.frame_B_)]
  /\ UNCHANGED <<ctor, context, evaluators, stacked>>

\* EvalFullJacobian clearing the velocities of the context it is given.
CallEvalFullJacobian_ClearsVelocity ==
  /\ op = "none"
  /\ op' = "EvalFullJacobian"
  /\ result' = EvalFullJacobian(evaluator, context)
  /\ context' = [context EXCEPT !.v = DefaultContext.v]
  /\ UNCHANGED <<evaluator, ctor, evaluators, stacked>>

\* The three evaluation calls: synchronous, on the caller's context.
CallEvalFull ==
  /\ op = "none"
  /\ op' = "EvalFull"
  /\ result' = EvalFull(evaluator, context)
  /\ UNCHANGED <<evaluator, ctor, context, evaluators, stacked>>

CallEvalFullJacobian ==
  /\ op = "none"
  /\ op' = "EvalFullJacobian"
  /\ result' = EvalFullJacobian(evaluator, context)
  /\ UNCHANGED <<evaluator, ctor, context, evaluators, stacked>>

CallEvalFullJacobianDotTimesV ==
  /\ op = "none"
  /\ op' = "EvalFullJacobianDotTimesV"
  /\ result' = EvalFullJacobianDotTimesV(evaluator, context)
  /\ UNCHANGED <<evaluator, ctor, context, evaluators, stacked>>

\* The caller is done with the value a call returned.
Discard ==
  /\ op # "none"
  /\ op' = "none"
  /\ result' = <<>>
  /\ UNCHANGED <<evaluator, ctor, context, evaluators, stacked>>

Next ==
  \/ SetPosition
  \/ SetVelocity
  \/ CallEvalFull
  \/ CallEvalFullJacobian
  \/ CallEvalFullJacobianDotTimesV
  \/ Discard

Spec == Init /\ [][Next]_vars


\* ------------------------------------------------------------ evaluator set
\* The rows member e contributes to the stacked output of the given kind
\* (residual, Jacobian or bias): e.length rows, each tagged with its member.
MemberRows(e, kind) == [r \in 1..e.length |-> <<kind, e.id, r>>]

RECURSIVE Stack(_, _)
\* The member results concatenated in insertion order.
Stack(members, kind) ==
  IF members = <<>> THEN <<>>
  ELSE MemberRows(Head(members), kind) \o Stack(Tail(members), kind)

RECURSIVE RowStart(_, _)
\* The index in the stacked output of the first row of member i.
RowStart(members, i) ==
  IF i = 1 THEN 1 ELSE RowStart(members, i - 1) + members[i - 1].length

\* Total row count: the sum of the members' lengths.
CountFull(members) == RowStart(members, Len(members) + 1) - 1

SetKinds == {"SetEvalFull", "SetEvalFullJacobian", "SetEvalFullJacobianDotTimesV"}

\* A new evaluator put in front of the members already there.
AddEvaluator_Front(len) ==
  /\ Len(evaluators) < MaxSet
  /\ evaluators' = <<[id |-> Len(evaluators) + 1, length |-> len]>> \o evaluators
  /\ UNCHANGED <<evaluator, ctor, context, op, result, stacked>>

\* A new evaluator of the given length is appended to the set.
AddEvaluator(len) ==
  /\ Len(evaluators) < MaxSet
  /\ evaluators' = Append(evaluators, [id |-> Len(evaluators) + 1, length |-> len])
  /\ UNCHANGED <<evaluator, ctor, context, op, result, stacked>>

\* The set is evaluated: one stacked residual, Jacobian or bias.
EvalSet(kind) ==
  /\ op' = kind
  /\ stacked' = Stack(evaluators, kind)
  /\ UNCHANGED <<evaluator, ctor, context, result, evaluators>>

InitSet ==
  /\ ctor = [plant |-> Plant, pt_A |-> <<0, 0, 0>>, frame_A |-> "F1",
             pt_B |-> <<1, 0, 0>>, frame_B |-> "F2", distance |-> 1]
  /\ evaluator = Construct(ctor)
  /\ context = DefaultContext
  /\ op = "none"
  /\ result = <<>>
  /\ evaluators = <<>>
  /\ stacked = <<>>

NextSet ==
  \/ \E len \in 1..MaxLen : AddEvaluator(len)
  \/ \E kind \in SetKinds : EvalSet(kind)

SpecSet == InitSet /\ [][NextSet]_vars

\* ------------------------------------------------------------------- claims
Calls == {"EvalFull", "EvalFullJacobian", "EvalFullJacobianDotTimesV"}

\* World positions of the evaluator's two points, and their separation.
WorldA == PointInWorld(evaluator.plant_, context, evaluator.frame_A_, evaluator.pt_A_)
WorldB == PointInWorld(evaluator.plant_, context, evaluator.frame_B_, evaluator.pt_B_)
Separation2 == SquaredNorm(Sub3(WorldA, WorldB))
\* The two frames are turned against each other and against the world.
Turned ==
  /\ evaluator.frame_A_ # evaluator.frame_B_
  /\ FrameTurn(context, evaluator.frame_A_) # FrameTurn(context, evaluator.frame_B_)
  /\ FrameTurn(context, evaluator.frame_B_) # 0
Moving == context.v[1] # 0 /\ context.v[2] # 0

\* C1: EvalFull returns the single value d - target, d the distance of the
\* two points; it is 0 when they are target apart, positive when farther and
\* negative when closer, whatever the orientation of the frames.
C1_Residual ==
  op = "EvalFull" =>
    /\ result = <<RSub(RSqrt(Separation2), R(evaluator.distance_))>>
    /\ Sign(result[1]) =
         (IF Separation2 > evaluator.distance_ * evaluator.distance_ THEN 1
          ELSE IF Separation2 < evaluator.distance_ * evaluator.distance_ THEN -1
          ELSE 0)
C1_Witness ==
  /\ op = "EvalFull"
  /\ Turned
  /\ evaluator.distance_ > 0
  /\ Separation2 = evaluator.distance_ * evaluator.distance_
  /\ result = <<R(0)>>

\* Delta^T * (J_A - J_B) / ||Delta|| with the positions and the world-measured
\* Jacobians of both points expressed in the common frame frame_E.
JacobianInFrame(self, context_, frame_E) ==
  LET Delta == RzT(FrameTurn(context_, frame_E),
                   Sub3(PointInWorld(self.plant_, context_, self.frame_A_, self.pt_A_),
                        PointInWorld(self.plant_, context_, self.frame_B_, self.pt_B_)))
      J_A   == CalcJacobianTranslationalVelocity(
                 self.plant_, context_, self.frame_A_, self.pt_A_, "world", frame_E)
      J_B   == CalcJacobianTranslationalVelocity(
                 self.plant_, context_, self.frame_B_, self.pt_B_, "world", frame_E)
  IN  MatDiv(MatMul(Transpose(Delta), MatSub(J_A, J_B)), Norm(Delta))

\* C2: at nonzero separation EvalFullJacobian returns
\* Delta^T * (J_A - J_B) / ||Delta||, in whichever common frame Delta and the
\* two Jacobians are expressed.
C2_Jacobian ==
  (op = "EvalFullJacobian" /\ Separation2 # 0) =>
    \A frame_E \in Frames : result = JacobianInFrame(evaluator, context, frame_E)
C2_Witness ==
  /\ op = "EvalFullJacobian"
  /\ Turned
  /\ Separation2 # 0
  /\ \A j \in 1..Plant.num_velocities : ~IsZero(result[1][j])

\* ||J v||^2 / phi + Delta^T (a_A - a_B) / phi - phidot * Delta^T (J v) / phi^2,
\* phidot = (Delta^T J / phi) v, every quantity taken in the world frame.
BiasFormula(self, context_) ==
  LET Delta  == Sub3(PointInWorld(self.plant_, context_, self.frame_A_, self.pt_A_),
                     PointInWorld(self.plant_, context_, self.frame_B_, self.pt_B_))
      J      == MatSub(CalcJacobianTranslationalVelocity(
                         self.plant_, context_, self.frame_A_, self.pt_A_, "world", "world"),
                       CalcJacobianTranslationalVelocity(
                         self.plant_, context_, self.frame_B_, self.pt_B_, "world", "world"))
      a_A    == CalcBiasSpatialAcceleration(
                  self.plant_, context_, self.frame_A_, self.pt_A_, "world")
      a_B    == CalcBiasSpatialAcceleration(
                  self.plant_, context_, self.frame_B_, self.pt_B_, "world")
      v      == GetVelocities(context_)
      Jv     == MatVec(J, v)
      phi    == RSqrt(SquaredNorm(Delta))
      phidot == RDiv(R(MatVec(MatMul(Transpose(Delta), J), v)[1]), phi)
      term1  == RDiv(R(SquaredNorm(Jv)), phi)
      term2  == RDiv(R(Dot3(Delta, Sub3(a_A, a_B))), phi)
      term3  == RDiv(RMul(phidot, R(Dot3(Delta, Jv))), RMul(phi, phi))
  IN  RSub(RAdd(term1, term2), term3)

\* C3: at nonzero separation EvalFullJacobianDotTimesV returns the three-term
\* bias formula, every term computed in the world frame.
C3_Bias ==
  (op = "EvalFullJacobianDotTimesV" /\ Separation2 # 0) =>
    result = <<BiasFormula(evaluator, context)>>
C3_Witness ==
  /\ op = "EvalFullJacobianDotTimesV"
  /\ Turned
  /\ Moving
  /\ Separation2 # 0
  /\ result[1].k = "fin"
  /\ result[1].b # 0

\* C4: with zero generalized velocity the bias term is exactly 0 wherever the
\* separation is nonzero.
C4_ZeroVelocity ==
  (op = "EvalFullJacobianDotTimesV" /\ Separation2 # 0
     /\ \A j \in 1..Plant.num_velocities : context.v[j] = 0) =>
    result = <<R(0)>>
C4_Witness ==
  /\ op = "EvalFullJacobianDotTimesV"
  /\ Turned
  /\ Separation2 # 0
  /\ context.v = <<0, 0>>
  /\ result = <<R(0)>>

\* C5: what a call returns is a function of the constructor's arguments and
\* the supplied context alone, whatever calls were made before.
C5_FunctionOfState ==
  /\ op = "EvalFull" => result = EvalFull(Construct(ctor), context)
  /\ op = "EvalFullJacobian" => result = EvalFullJacobian(Construct(ctor), context)
  /\ op = "EvalFullJacobianDotTimesV" =>
       result = EvalFullJacobianDotTimesV(Construct(ctor), context)
C5_Witness ==
  /\ op = "EvalFullJacobianDotTimesV"
  /\ context.q # DefaultContext.q
  /\ Moving
  /\ result = EvalFullJacobianDotTimesV(Construct(ctor), context)
  /\ result # EvalFullJacobianDotTimesV(Construct(ctor), DefaultContext)

\* C6: every evaluation call leaves the evaluator's fields (points, frames,
\* target distance, length, the borrowed plant) and the supplied context as
\* they were.
C6_PureRead ==
  [][(op' \in Calls /\ op' # op) => (evaluator' = evaluator /\ context' = context)]_vars
C6_Witness ==
  /\ op = "EvalFullJacobian"
  /\ evaluator = Construct(ctor)
  /\ context.q # DefaultContext.q
  /\ context.v # DefaultContext.v

\* C7: where the two points coincide, EvalFullJacobian and
\* EvalFullJacobianDotTimesV return NaN or infinite entries: the division by
\* the vanishing norm is neither refused nor replaced by a finite value.
C7_Degenerate ==
  (Separation2 = 0) =>
    /\ op = "EvalFullJacobian" =>
         \A j \in 1..Cols(result) : IsInvalid(result[1][j])
    /\ op = "EvalFullJacobianDotTimesV" => IsInvalid(result[1])
C7_Witness ==
  /\ op = "EvalFullJacobianDotTimesV"
  /\ Separation2 = 0
  /\ Moving
  /\ IsInvalid(result[1])

\* The stacked output holds the members' results in insertion order, each
\* member's rows at the row index the set now gives it.
StackedInOrder ==
  op \in SetKinds =>
    \E n \in 0..Len(evaluators) :
      \* stacked was returned when the set held its first n members
      /\ Len(stacked) = CountFull(SubSeq(evaluators, 1, n))
      /\ \A i \in 1..n : \A r \in 1..evaluators[i].length :
           stacked[RowStart(evaluators, i) + r - 1] = MemberRows(evaluators[i], op)[r]
\* C8: the stacked output of an evaluator set is the members' results in
\* insertion order, and appending an evaluator leaves every existing member
\* at its row index.
C8_RowOrder ==
  [][/\ StackedInOrder'
     /\ \A i \in 1..Len(evaluators) :
          /\ i <= Len(evaluators')
          /\ evaluators'[i] = evaluators[i]
          /\ RowStart(evaluators', i) = RowStart(evaluators, i)]_vars
C8_Witness ==
  /\ op \in SetKinds
  /\ Len(evaluators) = MaxSet
  /\ \E i \in 1..Len(evaluators) : evaluators[i].length > 1
  /\ Len(stacked) = CountFull(evaluators)
  /\ Len(stacked) > Len(evaluators)

\* C9: a distance evaluator has length 1: EvalFull and
\* EvalFullJacobianDotTimesV return one row, EvalFullJacobian one row of
\* num_velocities columns.
C9_Length ==
  /\ evaluator.length_ = 1
  /\ op \in {"EvalFull", "EvalFullJacobianDotTimesV"} => Len(result) = 1
  /\ op = "EvalFullJacobian" =>
       /\ Rows(result) = 1
       /\ Cols(result) = evaluator.plant_.num_velocities
C9_Witness ==
  /\ op = "EvalFullJacobian"
  /\ Rows(result) = evaluator.length_
  /\ Cols(result) = Plant.num_velocities
  /\ Moving

\* C10: at nonzero separation the Jacobian EvalFullJacobianDotTimesV forms in
\* the world frame from J_A - J_B equals the one EvalFullJacobian returns from
\* point A's Jacobian measured and expressed in frame B.
C10_SameJacobian ==
  (op = "EvalFullJacobian" /\ Separation2 # 0) =>
    result = WorldFrameJacobian(evaluator, context)
C10_Witness ==
  /\ op = "EvalFullJacobian"
  /\ evaluator.frame_A_ = "world"
  /\ evaluator.frame_B_ = "F2"
  /\ context.q[2] # 0
  /\ Separation2 # 0
  /\ ~IsZero(result[1][1])
  /\ ~IsZero(result[1][2])
  /\ result = WorldFrameJacobian(evaluator, context)

=============================================================================
